---- MODULE Spec2Model ----
(***************************************************************************)
(* CPE candidate generation of syft/pkg/cataloger/cpe.go.                  *)
(*                                                                         *)
(* Go strings are TLA+ strings; Len, SubSeq and \o act on them as on any   *)
(* sequence.  A []string is a sequence of strings, a pkg.CPE a record      *)
(* [Part, Product, Vendor, Version, TargetSW].                             *)
(***************************************************************************)
EXTENDS Integers, Sequences, FiniteSets

(***************************************************************************)
(* Bounds of the input space.                                              *)
(***************************************************************************)
\* longest package name drawn letter by letter from TokenAlphabet
MaxLen == 4
\* most sub-tokens of a package name built as sub-token (separator sub-token)*
MaxSubTokens == 3
\* most path segments after the host of a Go module path
MaxSegs == 2

(***************************************************************************)
(* strings, bytes: the library functions the code calls                     *)
(***************************************************************************)
Char(s, i) == SubSeq(s, i, i)

\* a sequence given as a function, as the list of its elements
asList(f) == SelectSeq(f, LAMBDA x : TRUE)

Drop(s, n) == SubSeq(s, n + 1, Len(s))

\* strings.Contains
Contains(s, sub) ==
    \E i \in 0..(Len(s) - Len(sub)) : SubSeq(s, i + 1, i + Len(sub)) = sub

\* strings.HasPrefix
HasPrefix(s, prefix) ==
    Len(s) >= Len(prefix) /\ SubSeq(s, 1, Len(prefix)) = prefix

\* bytes.IndexAny / strings.Index for one-byte needles: the first position
\* (1-based) holding a byte of chars, 0 when there is none
IndexAny(s, chars) ==
    IF \E i \in 1..Len(s) : Char(s, i) \in chars
    THEN CHOOSE i \in 1..Len(s) :
             /\ Char(s, i) \in chars
             /\ \A j \in 1..(i - 1) : Char(s, j) \notin chars
    ELSE 0

RECURSIVE ConcatRange(_, _, _, _)
\* parts[lo] \o ... \o parts[hi], empty when lo > hi
ConcatRange(parts, lo, hi, empty) ==
    IF lo > hi THEN empty
    ELSE IF lo = hi THEN parts[lo]
    ELSE LET mid == (lo + hi) \div 2
         IN  ConcatRange(parts, lo, mid, empty)
                 \o ConcatRange(parts, mid + 1, hi, empty)

\* the strings, or the lists, of parts appended one after the other
Concat(parts, empty) == ConcatRange(parts, 1, Len(parts), empty)

\* strings.ReplaceAll with a one-byte old
ReplaceAll(s, old, new) ==
    Concat(asList([i \in 1..Len(s) |->
                      IF Char(s, i) = old THEN new ELSE Char(s, i)]), "")

TrimLeft(s, cutset) ==
    LET keep == {i \in 1..Len(s) : Char(s, i) \notin cutset}
    IN  IF keep = {} THEN ""
        ELSE Drop(s, (CHOOSE i \in keep : \A j \in keep : i <= j) - 1)

TrimRight(s, cutset) ==
    LET keep == {i \in 1..Len(s) : Char(s, i) \notin cutset}
    IN  IF keep = {} THEN ""
        ELSE SubSeq(s, 1, CHOOSE i \in keep : \A j \in keep : i >= j)

\* strings.Trim / strings.TrimFunc
Trim(s, cutset) == TrimRight(TrimLeft(s, cutset), cutset)

RECURSIVE Split(_, _)
\* strings.Split with a one-byte separator: never empty, "" gives <<"">>
Split(s, sep) ==
    LET i == IndexAny(s, {sep})
    IN  IF i = 0 THEN <<s>>
        ELSE <<SubSeq(s, 1, i - 1)>> \o Split(Drop(s, i), sep)

UpperLetters == "ABCDEFGHIJKLMNOPQRSTUVWXYZ"
LowerLetters == "abcdefghijklmnopqrstuvwxyz"

\* strings.ToLower on ASCII
ToLower(s) ==
    Concat(asList([k \in 1..Len(s) |->
                      LET i == IndexAny(UpperLetters, {Char(s, k)})
                      IN  IF i = 0 THEN Char(s, k) ELSE Char(LowerLetters, i)]),
           "")

\* internal.HasAnyOfPrefixes
HasAnyOfPrefixes(input, prefixes) ==
    \E i \in 1..Len(prefixes) : HasPrefix(input, prefixes[i])

(***************************************************************************)
(* pkg and wfn constants                                                   *)
(***************************************************************************)
\* wfn.Any: the "any value" attribute, which the wfn package writes as ""
wfnAny == ""

JavaLang == "java"
JavaScriptLang == "javascript"
RubyLang == "ruby"
PythonLang == "python"
GoLang == "go"
UnknownLang == ""

JavaPkg == "java-archive"
JenkinsPluginPkg == "jenkins-plugin"
NpmPkg == "npm"
GemPkg == "gem"
PythonPkg == "python"
GoModulePkg == "go-module"
UnknownPkg == "UnknownPackage"

JavaMetadataType == "JavaMetadata"
UnknownMetadataType == "UnknownMetadata"

JiraPluginPomPropertiesGroupID == "com.atlassian.jira.plugins"

JenkinsPluginPomPropertiesGroupIDs ==
    << "com.cloudbees.jenkins.plugins", "io.jenkins.plugins",
       "org.jenkins.plugins", "org.jenkins-ci.plugins" >>

(***************************************************************************)
(* productCandidatesByPkgType and candidateStore.getCandidates             *)
(***************************************************************************)
productCandidatesByPkgType(t, key) ==
    CASE t = JavaPkg /\ key \in {"springframework", "spring-core"} ->
             <<"spring_framework", "springsource_spring_framework">>
      [] t = NpmPkg /\ key = "hapi" -> <<"hapi_server_framework">>
      [] t = NpmPkg /\ key = "handlebars.js" -> <<"handlebars">>
      [] t = NpmPkg /\ key = "is-my-json-valid" -> <<"is_my_json_valid">>
      [] t = NpmPkg /\ key = "mustache" -> <<"mustache.js">>
      [] t = GemPkg /\ key = "Arabic-Prawn" -> <<"arabic_prawn">>
      [] t = GemPkg /\ key = "bio-basespace-sdk" -> <<"basespace_ruby_sdk">>
      [] t = GemPkg /\ key = "cremefraiche" -> <<"creme_fraiche">>
      [] t = GemPkg /\ key = "html-sanitizer" -> <<"html_sanitizer">>
      [] t = GemPkg /\ key = "sentry-raven" -> <<"raven-ruby">>
      [] t = GemPkg /\ key = "RedCloth" -> <<"redcloth_library">>
      [] t = GemPkg /\ key = "VladTheEnterprising" -> <<"vladtheenterprising">>
      [] t = GemPkg /\ key = "yajl-ruby" -> <<"yajl-ruby_gem">>
      [] t = PythonPkg /\ key = "python-rrdtool" -> <<"rrdtool">>
      [] OTHER -> <<>>

getCandidates(t, key) == productCandidatesByPkgType(t, key)

(***************************************************************************)
(* normalizeAllSeparators, removeDuplicateValues                           *)
(***************************************************************************)
normalizeSeparators(field) ==
    <<field>>
    \o (IF Contains(field, "-")
        THEN <<ReplaceAll(field, "-", "_"), ReplaceAll(field, "-", "")>>
        ELSE <<>>)
    \o (IF Contains(field, "_")
        THEN <<ReplaceAll(field, "_", "-"), ReplaceAll(field, "_", "")>>
        ELSE <<>>)

normalizeAllSeparators(fields) ==
    Concat(asList([i \in 1..Len(fields) |-> normalizeSeparators(fields[i])]),
           <<>>)

\* every entry is in observed once the loop has passed it, so an entry is
\* appended when no entry before it is equal to it
removeDuplicateValues(values) ==
    LET kept == SelectSeq(asList([i \in 1..Len(values) |-> i]),
                          LAMBDA i : \A j \in 1..(i - 1) : values[j] # values[i])
    IN  asList([i \in 1..Len(kept) |-> values[kept[i]]])

(***************************************************************************)
(* scanHyphenOrUnderscore, generateSubSelections                           *)
(***************************************************************************)
Separators == {"-", "_"}

\* the token the scanner returns at the head of data, all of data being
\* buffered (atEOF); "" when the scanner stops
scanHyphenOrUnderscore(data) ==
    LET i == IndexAny(data, Separators)
    IN  IF data = "" THEN ""
        ELSE IF i > 0 THEN SubSeq(data, 1, i)
        ELSE data

\* a scan that also stops at a token with nothing but separators
scanEndsAtEmptyCandidate(rawCandidate) ==
    Len(Trim(rawCandidate, Separators)) = 0

\* if len(rawCandidate) == 0 { break }, and the end of the input, where
\* scanner.Scan() is false
scanEnds(rawCandidate) == Len(rawCandidate) = 0

\* a result that always joins with a hyphen
hyphenSubSelection(last, lastToken, candidate) == last \o "-" \o candidate

\* results[len(results)-1]+string(lastToken)+candidate
nextSubSelection(last, lastToken, candidate) == last \o lastToken \o candidate

RECURSIVE scanSubSelections(_, _, _)
\* the for scanner.Scan() loop: data is the input not yet scanned
scanSubSelections(data, results, lastToken) ==
    LET rawCandidate == scanHyphenOrUnderscore(data)
        candidate == Trim(rawCandidate, Separators)
    IN  IF scanEnds(rawCandidate) THEN results
        ELSE scanSubSelections(
                 Drop(data, Len(rawCandidate)),
                 IF Len(candidate) > 0
                 THEN IF Len(results) > 0
                      THEN Append(results,
                                  nextSubSelection(results[Len(results)],
                                                   lastToken, candidate))
                      ELSE Append(results, candidate)
                 ELSE results,
                 Char(rawCandidate, Len(rawCandidate)))

generateSubSelections(field) == scanSubSelections(field, <<>>, "")

generateAllSubSelections(fields) ==
    Concat(asList([i \in 1..Len(fields) |-> generateSubSelections(fields[i])]),
           <<>>)

(***************************************************************************)
(* Go module paths: url.Parse("http://" + name)                            *)
(***************************************************************************)
\* bytes url.Parse accepts unescaped in a host, among those names are made of
HostChars ==
    {Char(LowerLetters, i) : i \in 1..Len(LowerLetters)}
        \cup {Char(UpperLetters, i) : i \in 1..Len(UpperLetters)}
        \cup {"-", "_", ".", "0", "1", "2", "3", "4", "5", "6", "7", "8", "9"}

\* url.Parse("http://" + name) for a name without '?', '#', '%', '@', ':':
\* the host runs to the first '/', the path is the rest; a host with a byte
\* that must be escaped is an error
urlParse(name) ==
    LET i == IndexAny(name, {"/"})
        host == IF i = 0 THEN name ELSE SubSeq(name, 1, i - 1)
        path == IF i = 0 THEN "" ELSE Drop(name, i - 1)
    IN  [err |-> \E j \in 1..Len(host) : Char(host, j) \notin HostChars,
         Host |-> host,
         Path |-> path]

\* a parser that takes the first path element of any other host
candidateProductForGoFirstElement(name) ==
    LET u == urlParse(name)
        cleanPath == Trim(u.Path, {"/"})
        pathElements == Split(cleanPath, "/")
    IN  IF u.err THEN ""
        ELSE IF u.Host \in {"golang.org", "gopkg.in"} THEN cleanPath
        ELSE IF u.Host = "google.golang.org" THEN pathElements[1]
        ELSE IF Len(pathElements) < 2 THEN ""
        ELSE pathElements[1]

candidateProductForGo(name) ==
    LET u == urlParse(name)
        cleanPath == Trim(u.Path, {"/"})
        pathElements == Split(cleanPath, "/")
    IN  IF u.err THEN ""
        ELSE IF u.Host \in {"golang.org", "gopkg.in"} THEN cleanPath
        ELSE IF u.Host = "google.golang.org" THEN pathElements[1]
        ELSE IF Len(pathElements) < 2 THEN ""
        ELSE pathElements[2]

candidateVendorForGo(name) ==
    LET u == urlParse(name)
        cleanPath == Trim(u.Path, {"/"})
        pathElements == Split(cleanPath, "/")
    IN  IF u.err THEN ""
        ELSE IF u.Host = "google.golang.org" THEN "google"
        ELSE IF u.Host = "golang.org" THEN "golang"
        ELSE IF u.Host = "gopkg.in" THEN ""
        ELSE IF Len(pathElements) < 2 THEN ""
        ELSE pathElements[1]

(***************************************************************************)
(* Java: product and vendor from the pom.properties group ID               *)
(***************************************************************************)
\* p.Metadata is [isJava, hasPomProperties, GroupID]
groupIDFromPomProperties(pk) ==
    IF ~pk.Metadata.isJava THEN ""
    ELSE IF ~pk.Metadata.hasPomProperties THEN ""
    ELSE pk.Metadata.GroupID

shouldConsiderGroupID(groupID) ==
    IF groupID = "" THEN FALSE
    ELSE ~HasAnyOfPrefixes(
             groupID,
             <<JiraPluginPomPropertiesGroupID>> \o JenkinsPluginPomPropertiesGroupIDs)

\* <<product, vendor>>
productAndVendorFromPomPropertiesGroupID(pk) ==
    LET groupID == groupIDFromPomProperties(pk)
        fields == Split(groupID, ".")
    IN  IF ~shouldConsiderGroupID(groupID) THEN <<"", "">>
        ELSE IF ~HasAnyOfPrefixes(groupID, <<"com", "org">>) THEN <<"", "">>
        ELSE IF Len(fields) < 3 THEN <<"", "">>
        ELSE <<fields[3], fields[2]>>

candidateProductsForJava(pk) ==
    LET product == productAndVendorFromPomPropertiesGroupID(pk)[1]
    IN  IF product # ""
        THEN IF pk.Type = JenkinsPluginPkg /\ ToLower(product) = "jenkins"
             THEN <<>>
             ELSE <<product>>
        ELSE <<>>

candidateVendorsForJava(pk) ==
    LET vendor == productAndVendorFromPomPropertiesGroupID(pk)[2]
    IN  IF vendor # "" THEN <<vendor>> ELSE <<>>

(***************************************************************************)
(* candidateProducts, candidateVendors, candidateTargetSoftwareAttrs       *)
(***************************************************************************)
\* the candidates of the switch of candidateProducts, before normalization
baseProducts(pk) ==
    IF pk.Language = PythonLang
    THEN IF ~HasPrefix(pk.Name, "python")
         THEN <<pk.Name, "python-" \o pk.Name>>
         ELSE <<pk.Name>>
    ELSE IF pk.MetadataType = JavaMetadataType
    THEN <<pk.Name>> \o candidateProductsForJava(pk)
    ELSE IF pk.Language = GoLang
    THEN IF candidateProductForGo(pk.Name) # ""
         THEN <<candidateProductForGo(pk.Name)>>
         ELSE <<>>
    ELSE <<pk.Name>>

\* the same with the sub-selections of every candidate added
candidateProductsWithSubSelections(pk) ==
    removeDuplicateValues(
        generateAllSubSelections(
            normalizeAllSeparators(
                getCandidates(pk.Type, pk.Name) \o baseProducts(pk))))

candidateProducts(pk) ==
    removeDuplicateValues(
        getCandidates(pk.Type, pk.Name)
            \o normalizeAllSeparators(baseProducts(pk)))

\* the vendors of the switch of candidateVendors, given the starting list
vendorsByLanguage(pk, vendors) ==
    IF pk.Language = JavaLang
    THEN IF pk.MetadataType = JavaMetadataType
         THEN vendors \o candidateVendorsForJava(pk)
         ELSE vendors
    ELSE IF pk.Language = GoLang
    THEN IF candidateVendorForGo(pk.Name) # ""
         THEN <<candidateVendorForGo(pk.Name)>>
         ELSE <<>>
    ELSE vendors

\* the vendors, were they started from the base product candidates
candidateVendorsFromBase(pk) ==
    removeDuplicateValues(
        generateAllSubSelections(
            normalizeAllSeparators(vendorsByLanguage(pk, baseProducts(pk)))))

candidateVendors(pk) ==
    removeDuplicateValues(
        generateAllSubSelections(
            normalizeAllSeparators(vendorsByLanguage(pk, candidateProducts(pk)))))

candidateTargetSoftwareAttrsForJava(pk) ==
    IF pk.Type = JenkinsPluginPkg
    THEN <<"jenkins", "cloudbees_jenkins">>
    ELSE <<"java", "maven">>

candidateTargetSoftwareAttrs(pk) ==
    CASE pk.Language = JavaLang -> candidateTargetSoftwareAttrsForJava(pk)
      [] pk.Language = JavaScriptLang -> <<"node.js", "nodejs">>
      [] pk.Language = RubyLang -> <<"ruby", "rails">>
      [] pk.Language = PythonLang -> <<"python">>
      [] pk.Language = GoLang -> <<"go", "golang">>
      [] OTHER -> <<>>

(***************************************************************************)
(* newCPE, the candidate loop of generatePackageCPEs, filterCPEs           *)
(***************************************************************************)
\* the attributes newCPE sets; every other attribute is wfn.Any
newCPE(product, vendor, version, targetSW) ==
    [Part |-> "a", Product |-> product, Vendor |-> vendor,
     Version |-> version, TargetSW |-> targetSW]

\* fmt.Sprintf("%s|%s|%s|%s", product, vendor, p.Version, targetSw)
cpeKey(product, vendor, version, targetSw) ==
    product \o "|" \o vendor \o "|" \o version \o "|" \o targetSw

\* a key test that never finds the key
keysContainNever(keys, key) == FALSE

\* keys.Contains(key)
keysContain(keys, key) == key \in keys

\* the k-th (0-based) iteration of the three nested loops
loopTriple(k, products, vendors, targetSws) ==
    LET tsws == <<wfnAny>> \o targetSws
        nT == Len(tsws)
        nV == Len(vendors)
    IN  [product |-> products[(k \div (nV * nT)) + 1],
         vendor |-> vendors[((k \div nT) % nV) + 1],
         targetSw |-> tsws[(k % nT) + 1]]

loopLength(products, vendors, targetSws) ==
    Len(products) * Len(vendors) * (Len(targetSws) + 1)

\* the loop of lines 118-133.  Every iteration leaves its key in keys, so at
\* iteration k keys holds the keys of the iterations before it; cpes gets a
\* CPE from each iteration that does not find its key
candidateLoop(version, products, vendors, targetSws) ==
    LET n == loopLength(products, vendors, targetSws)
        triples == asList([i \in 1..n |->
                              loopTriple(i - 1, products, vendors, targetSws)])
        keyOf == asList([i \in 1..n |->
                            cpeKey(triples[i].product, triples[i].vendor,
                                   version, triples[i].targetSw)])
        added == SelectSeq(asList([i \in 1..n |-> i]),
                           LAMBDA k : ~keysContain({keyOf[j] : j \in 1..(k - 1)},
                                                   keyOf[k]))
    IN  asList([i \in 1..Len(added) |->
                   newCPE(triples[added[i]].product, triples[added[i]].vendor,
                          version, triples[added[i]].targetSw)])

\* a jira filter that forgets the vendor test
jiraFilterAnyVendor(cpe, pk) ==
    cpe.Product = "jira" /\ Contains(ToLower(pk.Name), "client")

\* jira / atlassian should not apply to clients
jiraFilter(cpe, pk) ==
    /\ cpe.Product = "jira" /\ Contains(ToLower(pk.Name), "client")
    /\ cpe.Vendor = wfnAny \/ cpe.Vendor = "jira" \/ cpe.Vendor = "atlassian"

\* jenkins server should only match against a product with the name jenkins
jenkinsFilter(cpe, pk) ==
    /\ cpe.Product = "jenkins" /\ ~Contains(ToLower(pk.Name), "jenkins")
    /\ cpe.Vendor = wfnAny \/ cpe.Vendor = "jenkins" \/ cpe.Vendor = "cloudbees"

cpeFilters(cpe, pk) == jiraFilter(cpe, pk) \/ jenkinsFilter(cpe, pk)

filterCPEs(cpes, pk) == SelectSeq(cpes, LAMBDA cpe : ~cpeFilters(cpe, pk))

(***************************************************************************)
(* sort.Sort(ByCPESpecificity(cpes))                                       *)
(***************************************************************************)
\* the number of attributes of a CPE that are not wfn.Any
specifiedFields(cpe) ==
    Cardinality({f \in {"Part", "Product", "Vendor", "Version", "TargetSW"} :
                     cpe[f] # wfnAny})

\* ByCPESpecificity.Less: the more specific CPE sorts first
Less(a, b) == specifiedFields(a) > specifiedFields(b)

RECURSIVE stableSortFrom(_, _)
\* the list ordered by Less with the elements neither of which is Less than
\* the other left in their order: those of n specified fields, then those of
\* fewer, each group in the order of cpes
stableSortFrom(cpes, n) ==
    IF n < 0 THEN <<>>
    ELSE SelectSeq(cpes, LAMBDA cpe : specifiedFields(cpe) = n)
             \o stableSortFrom(cpes, n - 1)

stableSort(cpes) == stableSortFrom(cpes, 5)

reversed(cpes) == asList([i \in 1..Len(cpes) |-> cpes[Len(cpes) + 1 - i]])

\* a sort that leaves the list as it is
sortSkipped(cpes) == {cpes}

\* sort.Sort orders by Less and promises no order among elements neither of
\* which is Less than the other (it is not sort.Stable): the outcomes taken
\* are the two extremes, such elements in the order of cpes and in the
\* reverse of it
sortByCPESpecificity(cpes) == {stableSort(cpes), stableSort(reversed(cpes))}

(***************************************************************************)
(* generatePackageCPEs                                                     *)
(***************************************************************************)
\* a generator that puts wfn.Any for the product of a product-less package
generatedCPEsAnyProduct(pk, products, vendors, targetSws) ==
    candidateLoop(pk.Version,
                  IF Len(products) = 0 THEN <<wfnAny>> ELSE products,
                  vendors, targetSws)

\* cpes after the loop (lines 112-133); without a product the function
\* returns nil there, and no CPE is left to filter and sort
generatedCPEs(pk, products, vendors, targetSws) ==
    IF Len(products) = 0 THEN <<>>
    ELSE candidateLoop(pk.Version, products, vendors, targetSws)

(***************************************************************************)
(* The packages the operations are applied to                              *)
(***************************************************************************)
TokenAlphabet == {"a", "-", "_"}
SubTokens == {"a", "bc"}
PathSegments == {"x", "net"}
GoHosts == {"golang.org", "gopkg.in", "google.golang.org", "github.com",
            "justaname"}

RECURSIVE Words(_, _)
\* the strings of n letters of alphabet
Words(alphabet, n) ==
    IF n = 0 THEN {""}
    ELSE {w \o c : w \in Words(alphabet, n - 1), c \in alphabet}

RECURSIVE JoinedTokens(_)
\* n sub-tokens joined by single separators
JoinedTokens(n) ==
    IF n = 1 THEN SubTokens
    ELSE {t \o sep \o s : t \in JoinedTokens(n - 1), sep \in Separators,
                          s \in SubTokens}

RECURSIVE ModulePaths(_)
\* a host followed by n path segments
ModulePaths(n) ==
    IF n = 0 THEN GoHosts
    ELSE {m \o "/" \o s : m \in ModulePaths(n - 1), s \in PathSegments}

LetterNames == UNION {Words(TokenAlphabet, n) : n \in 1..MaxLen}
JoinedNames == UNION {JoinedTokens(n) : n \in 1..MaxSubTokens}
GoNames == UNION {ModulePaths(n) : n \in 0..MaxSegs}
        \cup {"github.com/x//net", "github.com//x/net/", "git|hub.com/x/net"}
KnownNames == {"spring-core", "hapi", "python-rrdtool", "yajl-ruby", "RedCloth",
               "jira-client", "Jira-Client-lib", "acme-widget", "jenkins-ci",
               "x|y"}

Names == LetterNames \cup JoinedNames \cup GoNames \cup KnownNames

NoMetadata == [isJava |-> FALSE, hasPomProperties |-> FALSE, GroupID |-> ""]

Ecosystem(language, type) ==
    [Language |-> language, Type |-> type,
     MetadataType |-> UnknownMetadataType, Metadata |-> NoMetadata]

\* a Java archive whose metadata has no pom.properties
JavaArchive ==
    [Language |-> JavaLang, Type |-> JavaPkg, MetadataType |-> JavaMetadataType,
     Metadata |-> [isJava |-> TRUE, hasPomProperties |-> FALSE, GroupID |-> ""]]

\* language, type and metadata of packages without pom.properties
PlainEcosystems ==
    {Ecosystem(UnknownLang, UnknownPkg), JavaArchive,
     Ecosystem(JavaScriptLang, NpmPkg), Ecosystem(RubyLang, GemPkg),
     Ecosystem(PythonLang, PythonPkg), Ecosystem(GoLang, GoModulePkg)}

GroupIDs == {"org.apache.commons", "com.x", "net.a.b", "com.atlassian.jira",
             "org.cloudbees.jenkins", "org.jenkins-ci.plugins.workflow",
             "org.y|x.x"}

\* Java archives and Jenkins plugins with a pom.properties
PomEcosystems ==
    {[Language |-> JavaLang, Type |-> t, MetadataType |-> JavaMetadataType,
      Metadata |-> [isJava |-> TRUE, hasPomProperties |-> TRUE, GroupID |-> g]] :
        t \in {JavaPkg, JenkinsPluginPkg}, g \in GroupIDs}

Versions == {"1.0"}

Package(name, version, e) ==
    [Name |-> name, Version |-> version, Language |-> e.Language,
     Type |-> e.Type, MetadataType |-> e.MetadataType, Metadata |-> e.Metadata]

Packages ==
    {Package(n, v, e) : n \in LetterNames, v \in Versions,
                        e \in {Ecosystem(UnknownLang, UnknownPkg),
                               Ecosystem(GoLang, GoModulePkg)}}
        \cup {Package(n, v, e) : n \in JoinedNames, v \in Versions,
                                 e \in {Ecosystem(UnknownLang, UnknownPkg),
                                        JavaArchive}}
        \cup {Package(n, v, e) : n \in GoNames, v \in Versions,
                                 e \in {Ecosystem(UnknownLang, UnknownPkg),
                                        Ecosystem(GoLang, GoModulePkg)}}
        \cup {Package(n, v, e) : n \in KnownNames, v \in Versions,
                                 e \in PlainEcosystems \cup PomEcosystems}

(***************************************************************************)
(* State: a package and the results of the operations applied to it        *)
(***************************************************************************)
VARIABLES
    p,              \* the pkg.Package
    pc,             \* "ready", or the operation that has been applied to p
    subSelections,  \* result of generateSubSelections(p.Name)
    goProduct,      \* result of candidateProductForGo(p.Name)
    goVendor,       \* result of candidateVendorForGo(p.Name)
    targetSws,      \* generatePackageCPEs: its three candidate lists,
    vendors,
    products,
    generated,      \* its cpes after the loop,
    cpes            \* and the list it returns

vars == <<p, pc, subSelections, goProduct, goVendor, targetSws, vendors,
          products, generated, cpes>>

Init ==
    /\ p \in Packages
    /\ pc = "ready"
    /\ subSelections = <<>>
    /\ goProduct = ""
    /\ goVendor = ""
    /\ targetSws = <<>>
    /\ vendors = <<>>
    /\ products = <<>>
    /\ generated = <<>>
    /\ cpes = <<>>

GenerateSubSelections ==
    /\ pc = "ready"
    /\ pc' = "generateSubSelections"
    /\ subSelections' = generateSubSelections(p.Name)
    /\ UNCHANGED <<p, goProduct, goVendor, targetSws, vendors, products,
                   generated, cpes>>

CandidateForGo ==
    /\ pc = "ready"
    /\ pc' = "candidateForGo"
    /\ goProduct' = candidateProductForGo(p.Name)
    /\ goVendor' = candidateVendorForGo(p.Name)
    /\ UNCHANGED <<p, subSelections, targetSws, vendors, products, generated,
                   cpes>>

GeneratePackageCPEs ==
    /\ pc = "ready"
    /\ pc' = "generatePackageCPEs"
    /\ targetSws' = candidateTargetSoftwareAttrs(p)
    /\ vendors' = candidateVendors(p)
    /\ products' = candidateProducts(p)
    /\ generated' = generatedCPEs(p, products', vendors', targetSws')
    /\ cpes' \in sortByCPESpecificity(filterCPEs(generated', p))
    /\ UNCHANGED <<p, subSelections, goProduct, goVendor>>

Next ==
    \/ GenerateSubSelections
    \/ CandidateForGo
    \/ GeneratePackageCPEs

Spec == Init /\ [][Next]_vars

(***************************************************************************)
(* Properties                                                              *)
(***************************************************************************)
Returned == pc = "generatePackageCPEs"

Range(f) == {f[i] : i \in DOMAIN f}

\* C1: a package whose product-candidate list is empty gets an empty list of
\* CPEs, whatever its vendor and target-software lists are.
C1_NoProductNoCPE == (Returned /\ products = <<>>) => cpes = <<>>

\* a product-less package with a vendor and target-software candidates
C1_Witness ==
    /\ Returned
    /\ products = <<>> /\ vendors # <<>> /\ targetSws # <<>>
    /\ cpes = <<>>

KeyOf(cpe) == cpeKey(cpe.Product, cpe.Vendor, cpe.Version, cpe.TargetSW)

\* the keys of the iterations of the loop, in their order
GeneratedKeys ==
    asList([k \in 1..loopLength(products, vendors, targetSws) |->
               LET t == loopTriple(k - 1, products, vendors, targetSws)
               IN  cpeKey(t.product, t.vendor, p.Version, t.targetSw)])

\* C2: no two CPEs of the returned list have the same
\* product|vendor|version|target-software key, and each of them is the first
\* candidate the loop generated with its key.
C2_NoDuplicateKey ==
    Returned =>
        LET keys == GeneratedKeys
            returned == asList([i \in 1..Len(cpes) |-> KeyOf(cpes[i])])
        IN  /\ \A i, j \in 1..Len(cpes) : i # j => returned[i] # returned[j]
            /\ \A i \in 1..Len(cpes) :
                   LET same == {k \in 1..Len(keys) : keys[k] = returned[i]}
                       first == CHOOSE k \in same : \A j \in same : k <= j
                       t == loopTriple(first - 1, products, vendors, targetSws)
                   IN  cpes[i] = newCPE(t.product, t.vendor, p.Version, t.targetSw)

\* the loop met a key a second time, and the first candidate is returned
C2_Witness ==
    /\ Returned
    /\ Len(generated) < loopLength(products, vendors, targetSws)
    /\ p.Name = "x|y"
    /\ \E i \in 1..Len(cpes) : cpes[i].Product = "x|y" /\ cpes[i].Vendor = "x"
    /\ \A i \in 1..Len(cpes) : ~(cpes[i].Product = "x" /\ cpes[i].Vendor = "y|x")

JiraVendors == {wfnAny, "jira", "atlassian"}
JenkinsVendors == {wfnAny, "jenkins", "cloudbees"}

IsClient == Contains(ToLower(p.Name), "client")
IsJenkins == Contains(ToLower(p.Name), "jenkins")

\* what the two filters are to remove
Vetoed(cpe) ==
    \/ IsClient /\ cpe.Product = "jira" /\ cpe.Vendor \in JiraVendors
    \/ ~IsJenkins /\ cpe.Product = "jenkins" /\ cpe.Vendor \in JenkinsVendors

\* C3: the returned list holds no jira CPE of vendor any, jira or atlassian
\* for a package whose lower-cased name contains "client", no jenkins CPE of
\* vendor any, jenkins or cloudbees for a package whose lower-cased name does
\* not contain "jenkins", and every other generated candidate, unchanged.
C3_FiltersVetoExactly ==
    Returned =>
        /\ \A i \in 1..Len(cpes) : ~Vetoed(cpes[i])
        /\ Range(cpes) = {c \in Range(generated) : ~Vetoed(c)}

\* a client package: the atlassian jira candidate is dropped, a jira
\* candidate of another vendor is returned
C3_Witness ==
    /\ Returned
    /\ IsClient
    /\ \E i \in 1..Len(generated) :
           generated[i].Product = "jira" /\ generated[i].Vendor = "atlassian"
    /\ \A i \in 1..Len(cpes) :
           ~(cpes[i].Product = "jira" /\ cpes[i].Vendor \in JiraVendors)
    /\ \E i \in 1..Len(cpes) :
           cpes[i].Product = "jira" /\ cpes[i].Vendor = "jira-client"

RECURSIVE JoinPath(_)
\* the segments joined by slashes
JoinPath(segs) ==
    IF Len(segs) = 0 THEN ""
    ELSE IF Len(segs) = 1 THEN segs[1]
    ELSE segs[1] \o "/" \o JoinPath(Tail(segs))

SegmentLists == UNION {[1..n -> PathSegments] : n \in 0..MaxSegs}

\* the names without a slash that url.Parse takes as a host
Hosts == {n \in Names : \A i \in 1..Len(n) : Char(n, i) \in HostChars}

\* C4: for the name host/seg1/.../segN: golang.org gives the whole path and
\* vendor golang; gopkg.in the whole path and no vendor; google.golang.org
\* the first segment and vendor google; any other host the first segment as
\* vendor and the second as product when N >= 2, and neither otherwise.
C4_GoModulePath ==
    pc = "candidateForGo" =>
        \A host \in Hosts : \A segs \in SegmentLists :
            p.Name = (IF Len(segs) = 0 THEN host
                      ELSE host \o "/" \o JoinPath(segs)) =>
                CASE host = "golang.org" ->
                         goProduct = JoinPath(segs) /\ goVendor = "golang"
                  [] host = "gopkg.in" ->
                         goProduct = JoinPath(segs) /\ goVendor = ""
                  [] host = "google.golang.org" ->
                         /\ Len(segs) >= 1 => goProduct = segs[1]
                         /\ goVendor = "google"
                  [] OTHER ->
                         IF Len(segs) >= 2
                         THEN goVendor = segs[1] /\ goProduct = segs[2]
                         ELSE goVendor = "" /\ goProduct = ""

\* github.com/x/net: vendor x, product net
C4_Witness ==
    /\ pc = "candidateForGo"
    /\ p.Name = "github.com/x/net"
    /\ goVendor = "x" /\ goProduct = "net"

\* the first n of the sub-tokens toks, joined by the separators seps
RECURSIVE JoinedPrefix(_, _, _)
JoinedPrefix(toks, seps, n) ==
    IF n = 1 THEN toks[1]
    ELSE JoinedPrefix(toks, seps, n - 1) \o seps[n - 1] \o toks[n]

\* C5: a token of n >= 1 non-empty sub-tokens joined by single hyphens or
\* underscores expands to its n cumulative prefixes, shortest first, each
\* with the token's own separators, the last one the token itself.
C5_SubSelectionsArePrefixes ==
    pc = "generateSubSelections" =>
        \A n \in 1..MaxSubTokens :
            \A toks \in [1..n -> SubTokens] :
                \A seps \in [1..(n - 1) -> Separators] :
                    p.Name = JoinedPrefix(toks, seps, n) =>
                        /\ Len(subSelections) = n
                        /\ \A i \in 1..n :
                               subSelections[i] = JoinedPrefix(toks, seps, i)

\* a-bc_a: a, a-bc, a-bc_a
C5_Witness ==
    /\ pc = "generateSubSelections"
    /\ p.Name = "a-bc_a"
    /\ subSelections = <<"a", "a-bc", "a-bc_a">>

IsSeparator(s, i) == Char(s, i) \in Separators

\* where the non-empty sub-tokens of s start
SubTokenStarts(s) ==
    {i \in 1..Len(s) : ~IsSeparator(s, i) /\ (i = 1 \/ IsSeparator(s, i - 1))}

\* the sub-token of s that starts at i
SubTokenAt(s, i) ==
    LET rest == IndexAny(Drop(s, i - 1), Separators)
    IN  IF rest = 0 THEN Drop(s, i - 1) ELSE SubSeq(s, i, i + rest - 2)

\* the k-th smallest element of a set of numbers
Kth(S, k) == CHOOSE i \in S : Cardinality({j \in S : j < i}) = k - 1

\* the first separator of s that ends a raw sub-token with nothing else in
\* it: a leading separator or the second of two adjacent ones; 0 if none
FirstEmptySubToken(s) ==
    LET E == {i \in 1..Len(s) : IsSeparator(s, i)
                                    /\ (i = 1 \/ IsSeparator(s, i - 1))}
    IN  IF E = {} THEN 0 ELSE Kth(E, 1)

\* C6: of two returned CPEs with the same product, vendor and version, one
\* with a target software and one with wfn.Any for it, the one with the
\* target software comes first.
C6_TargetSoftwareFirst ==
    Returned =>
        \A i, j \in 1..Len(cpes) :
            (/\ cpes[i].Product = cpes[j].Product
             /\ cpes[i].Vendor = cpes[j].Vendor
             /\ cpes[i].Version = cpes[j].Version
             /\ cpes[i].TargetSW # wfnAny
             /\ cpes[j].TargetSW = wfnAny) => i < j

\* the loop generated the wfn.Any candidate first, the returned list has it
\* behind the same candidate with a target software
C6_Witness ==
    /\ Returned
    /\ Len(generated) >= 2
    /\ generated[1].TargetSW = wfnAny /\ generated[2].TargetSW # wfnAny
    /\ generated[1].Product = generated[2].Product
    /\ generated[1].Vendor = generated[2].Vendor
    /\ \E i, j \in 1..Len(cpes) :
           i < j /\ cpes[i] = generated[2] /\ cpes[j] = generated[1]

\* the separator variants of a candidate
SeparatorVariants(c) ==
    {c} \cup (IF Contains(c, "-")
              THEN {ReplaceAll(c, "-", "_"), ReplaceAll(c, "-", "")} ELSE {})
        \cup (IF Contains(c, "_")
              THEN {ReplaceAll(c, "_", "-"), ReplaceAll(c, "_", "")} ELSE {})

C9_EmptySubTokenEndsExpansion ==
    pc = "generateSubSelections" =>
        LET e == FirstEmptySubToken(p.Name)
        IN  e > 0 =>
                Len(subSelections)
                    = Cardinality(SubTokenStarts(SubSeq(p.Name, 1, e - 1)))

\* C9, amended: a raw sub-token that is empty after trimming adds no result
\* and does not end the expansion: every non-empty sub-token gives a result,
\* the first one itself, a later one the result before it, the separator
\* right before the sub-token, and the sub-token.
C9_EmptySubTokenIsSkipped ==
    pc = "generateSubSelections" =>
        LET starts == SubTokenStarts(p.Name)
        IN  /\ Len(subSelections) = Cardinality(starts)
            /\ \A k \in 1..Len(subSelections) :
                   LET i == Kth(starts, k)
                   IN  subSelections[k] =
                           IF k = 1 THEN SubTokenAt(p.Name, i)
                           ELSE subSelections[k - 1] \o Char(p.Name, i - 1)
                                    \o SubTokenAt(p.Name, i)

\* a--a: the second hyphen is an empty sub-token, and a-a follows
C9_Witness ==
    /\ pc = "generateSubSelections"
    /\ p.Name = "a--a"
    /\ FirstEmptySubToken(p.Name) = 3
    /\ subSelections = <<"a", "a-a">>

\* where the loop put a CPE
GeneratedAt(cpe) == CHOOSE i \in 1..Len(generated) : generated[i] = cpe

\* C10: two returned CPEs neither of which is more specific than the other
\* are returned in the order the loop generated them.
C10_SortIsStable ==
    Returned =>
        LET at == asList([i \in 1..Len(cpes) |-> GeneratedAt(cpes[i])])
        IN  \A i, j \in 1..Len(cpes) :
                (i < j /\ ~Less(cpes[i], cpes[j]) /\ ~Less(cpes[j], cpes[i]))
                    => at[i] < at[j]

====
